---- MODULE Spec2Model ----
(***************************************************************************)
(* Model of src/fetchers/repo.js: fetchRepo, its two sub-fetchers          *)
(* (fetchRepoMeta, fetchRepoCommits) and the commit reconciler             *)
(* (filterDuplicateCommits, totalAdditionsAndDeletionsByUser).             *)
(*                                                                         *)
(* One behaviour is one invocation of fetchRepo.  The retryer is the       *)
(* environment: every awaited call either resolves with a response drawn   *)
(* from a bounded set of response shapes or rejects.                       *)
(*                                                                         *)
(* JavaScript values: null and undefined are the records Null and          *)
(* Undefined, a string is a record [chars |-> sequence of character        *)
(* codes], an object is a record whose DOMAIN is its set of own keys.      *)
(***************************************************************************)
EXTENDS Integers, Sequences, FiniteSets, TLC

VARIABLES username, reponame, pc, calls, metaResp, idResp, commitsResp,
          repoMeta, id, result, error

vars == <<username, reponame, pc, calls, metaResp, idResp, commitsResp,
          repoMeta, id, result, error>>

-----------------------------------------------------------------------------
(* Bounds of the response shapes.                                          *)

\* most branch refs in one commit-query response
MaxRefs == 2

\* most commit records in one commit-query response, over all its refs
MaxCommits == 3

-----------------------------------------------------------------------------
(* JavaScript values.                                                      *)

Null == [null |-> TRUE]

Undefined == [undefined |-> TRUE]

Str(s) == [chars |-> s]

\* !x for x a string, null or undefined
Falsy(x) == x = Null \/ x = Undefined \/ x = Str(<<>>)

\* String.prototype.toLowerCase on ASCII letters
ToLowerCase(s) ==
  Str([i \in DOMAIN s.chars |->
         IF s.chars[i] \in 65..90 THEN s.chars[i] + 32 ELSE s.chars[i]])

\* obj.k || 0 for a numeric field that may be missing
OrZero(obj, k) == IF k \in DOMAIN obj /\ obj[k] # 0 THEN obj[k] ELSE 0

\* { ...a, ...b }: the keys of both, b's value where both have the key
Spread(a, b) ==
  [k \in DOMAIN a \cup DOMAIN b |-> IF k \in DOMAIN b THEN b[k] ELSE a[k]]

Error(message) == [name |-> "Error", message |-> message]

urlExample == "/api/pin?username=USERNAME&amp;repo=REPO_NAME"

MissingParamError(missedParams) ==
  [name |-> "MissingParamError", missedParams |-> missedParams,
   secondaryMessage |-> urlExample]

\* the rejection of the retryer itself, after it exhausted its retries
NetworkError == Error("Network Error")

-----------------------------------------------------------------------------
(* JSON.stringify / JSON.parse of a commit record.  The serialisation is a *)
(* sequence of integers: a key is written as its (negative) key code, a    *)
(* number as itself, a string as its length followed by its character      *)
(* codes, null as NullTok.  Keys are written in the order the response     *)
(* lists them, which is the selection order of the query.                  *)

KeyOrder == <<"oid", "author", "additions", "deletions">>

KeyTok(k) == 0 - (CHOOSE i \in DOMAIN KeyOrder : KeyOrder[i] = k)

NullTok == 0 - 9

StringifyString(s) == <<Len(s.chars)>> \o s.chars

StringifyUser(u) ==
  IF u = Null THEN <<NullTok>>
  ELSE <<u.id>> \o StringifyString(u.login)

StringifyValue(k, v) ==
  IF k = "author" THEN StringifyUser(v.user) ELSE <<v>>

RECURSIVE StringifyFrom(_, _)
StringifyFrom(obj, i) ==
  IF i > Len(KeyOrder) THEN <<>>
  ELSE (IF KeyOrder[i] \in DOMAIN obj
          THEN <<KeyTok(KeyOrder[i])>> \o StringifyValue(KeyOrder[i], obj[KeyOrder[i]])
          ELSE <<>>)
       \o StringifyFrom(obj, i + 1)

JSONStringify(obj) == StringifyFrom(obj, 1)

\* the tokens of str from position i up to the next key token (or the end)
RECURSIVE ValueTokens(_, _)
ValueTokens(str, i) ==
  IF i > Len(str) \/ (str[i] < 0 /\ str[i] # NullTok) THEN <<>>
  ELSE <<str[i]>> \o ValueTokens(str, i + 1)

ParseUser(toks) ==
  IF toks = <<NullTok>> THEN Null
  ELSE [id |-> toks[1], login |-> Str(SubSeq(toks, 3, 2 + toks[2]))]

ParseValue(k, toks) ==
  IF k = "author" THEN [user |-> ParseUser(toks)] ELSE toks[1]

JSONParse(str) ==
  LET keyPos == {i \in DOMAIN str : str[i] < 0 /\ str[i] # NullTok}
      keys == {KeyOrder[0 - str[i]] : i \in keyPos}
      posOf(k) == CHOOSE i \in keyPos : str[i] = KeyTok(k)
  IN  [k \in keys |-> ParseValue(k, ValueTokens(str, posOf(k) + 1))]

-----------------------------------------------------------------------------
(* The commit reconciler.                                                  *)

RECURSIVE Flat(_)
\* branchesCommits.map(node => node.target.history.nodes).flat()
Flat(branchesCommits) ==
  IF branchesCommits = <<>> THEN <<>>
  ELSE Head(branchesCommits).target.history.nodes \o Flat(Tail(branchesCommits))

RECURSIVE SetInsertionOrder(_, _)
\* [...new Set(xs)]: the first occurrence of each value, in insertion order
SetInsertionOrder(xs, seen) ==
  IF xs = <<>> THEN <<>>
  ELSE IF Head(xs) \in seen THEN SetInsertionOrder(Tail(xs), seen)
  ELSE <<Head(xs)>> \o SetInsertionOrder(Tail(xs), seen \cup {Head(xs)})

DedupKey(commit) == JSONStringify(commit)

\* variant: a commit is identified by its oid alone
filterDuplicateCommitsByOid(branchesCommits) ==
  LET flat == Flat(branchesCommits)
      first == {i \in DOMAIN flat : \A j \in 1..(i - 1) : flat[j].oid # flat[i].oid}
      RECURSIVE Keep(_)
      Keep(i) == IF i > Len(flat) THEN <<>>
                 ELSE (IF i \in first THEN <<flat[i]>> ELSE <<>>) \o Keep(i + 1)
  IN  Keep(1)

filterDuplicateCommits(branchesCommits) ==
  LET flat == Flat(branchesCommits)
      strs == [i \in DOMAIN flat |-> DedupKey(flat[i])]
      uniq == SetInsertionOrder(strs, {})
  IN  [i \in DOMAIN uniq |-> JSONParse(uniq[i])]

\* variant: the logins are compared as they are written
AuthoredByCaseSensitive(commit, login) ==
  /\ ~Falsy(commit.author.user)
  /\ commit.author.user.login = login

\* the condition of the if inside the loop
AuthoredBy(commit, login) ==
  /\ ~Falsy(commit.author.user)
  /\ ToLowerCase(commit.author.user.login) = ToLowerCase(login)

RECURSIVE SumLoop(_, _, _, _, _)
\* the for loop, from index i with the running totals
SumLoop(uniqueCommits, login, i, additionsCount, deletionsCount) ==
  IF i > Len(uniqueCommits)
    THEN [additionsCount |-> additionsCount, deletionsCount |-> deletionsCount]
  ELSE IF AuthoredBy(uniqueCommits[i], login)
    THEN SumLoop(uniqueCommits, login, i + 1,
                 additionsCount + OrZero(uniqueCommits[i], "additions"),
                 deletionsCount + OrZero(uniqueCommits[i], "deletions"))
  ELSE SumLoop(uniqueCommits, login, i + 1, additionsCount, deletionsCount)

totalAdditionsAndDeletionsByUser(branchesCommits, login) ==
  SumLoop(filterDuplicateCommits(branchesCommits), login, 1, 0, 0)

-----------------------------------------------------------------------------
(* Outcome of a function body: it returns a value or throws an error.      *)

Return(v) == [returned |-> v]

Throw(e) == [thrown |-> e]

Threw(o) == "thrown" \in DOMAIN o

-----------------------------------------------------------------------------
(* The three request payloads handed to retryer(fetcher, payload).         *)

MetaQuery(login, repo) ==
  [query |-> "getRepo", variables |-> [login |-> login, repo |-> repo]]

IdQuery(login) ==
  [query |-> "q_id", variables |-> [login |-> login]]

CommitsQuery(login, repo, userId) ==
  [query |-> "q", variables |-> [login |-> login, repo |-> repo, id |-> userId]]

-----------------------------------------------------------------------------
(* Function bodies, each from its await to its return or throw.            *)

\* variant: the check of both parameters comes after the check of username
ValidateParamsUsernameFirst(u, r) ==
  IF Falsy(u) THEN Throw(MissingParamError(<<"username">>))
  ELSE IF Falsy(u) /\ Falsy(r) THEN Throw(MissingParamError(<<"username", "repo">>))
  ELSE IF Falsy(r) THEN Throw(MissingParamError(<<"repo">>))
  ELSE Return(Undefined)

\* fetchRepo up to its first await
ValidateParams(u, r) ==
  IF Falsy(u) /\ Falsy(r) THEN Throw(MissingParamError(<<"username", "repo">>))
  ELSE IF Falsy(u) THEN Throw(MissingParamError(<<"username">>))
  ELSE IF Falsy(r) THEN Throw(MissingParamError(<<"repo">>))
  ELSE Return(Undefined)

\* variant: a user is enough, whatever the organization
IsUserAnyOrganization(data) == ~Falsy(data.user)

\* data.organization === null && data.user
IsUser(data) == data.organization = Null /\ ~Falsy(data.user)

\* data.user === null && data.organization
IsOrg(data) == data.user = Null /\ ~Falsy(data.organization)

\* variant: the private flag is not looked at
RepositoryHiddenNullOnly(owner) == Falsy(owner.repository)

\* !owner.repository || owner.repository.isPrivate
RepositoryHidden(owner) ==
  Falsy(owner.repository) \/ owner.repository.isPrivate = TRUE

\* variant: starCount is taken from the fork counter
WithStarCountFromForks(repository) ==
  Spread(repository, [starCount |-> repository.forkCount])

\* { ...repository, starCount: repository.stargazers.totalCount }
WithStarCount(repository) ==
  Spread(repository, [starCount |-> repository.stargazers.totalCount])

\* fetchRepoMeta after its await, data = res.data.data
ResolveOwner(data) ==
  IF Falsy(data.user) /\ Falsy(data.organization) THEN Throw(Error("Not found"))
  ELSE IF IsUser(data) THEN
    (IF RepositoryHidden(data.user)
       THEN Throw(Error("User Repository Not found"))
       ELSE Return(WithStarCount(data.user.repository)))
  ELSE IF IsOrg(data) THEN
    (IF RepositoryHidden(data.organization)
       THEN Throw(Error("Organization Repository Not found"))
       ELSE Return(WithStarCount(data.organization.repository)))
  ELSE Throw(Error("Unexpected behavior"))

\* variant: the null check of the user is missing
ResolveIdentityUnchecked(data_id) ==
  Return(IF Falsy(data_id.user) THEN Undefined ELSE data_id.user.id)

\* fetchRepoCommits between its two awaits, data_id = res_id.data.data
ResolveIdentity(data_id) ==
  IF Falsy(data_id.user) THEN Throw(Error("Not found"))
  ELSE Return(data_id.user.id)

\* variant: the commits are counted, not the refs
NoRefsOrNoCommits(data) == Len(Flat(data.repository.refs.nodes)) = 0

\* data.repository.refs.nodes.length === 0
NoRefs(data) == Len(data.repository.refs.nodes) = 0

\* fetchRepoCommits after its second await, data = res.data.data
CommitStats(data, login) ==
  IF Falsy(data.repository) \/ Falsy(data.repository.refs)
    THEN Throw(Error("Repository or refs not found"))
  ELSE IF NoRefs(data) THEN Throw(Error("No commits found"))
  ELSE Return(totalAdditionsAndDeletionsByUser(data.repository.refs.nodes, login))

\* the object fetchRepo returns
MergeResult(meta, commits) == Spread(meta, commits)

-----------------------------------------------------------------------------
(* Inputs: the arguments of the call and the response shapes.              *)

\* "t", "T" and "o"
LowerLogin == Str(<<116>>)

UpperLogin == Str(<<84>>)

OtherLogin == Str(<<111>>)

Usernames == {Undefined, Str(<<>>), LowerLogin, UpperLogin}

Reponames == {Undefined, Str(<<>>), Str(<<114>>)}

StarCounts == {0, 1}

RepositoryRecords ==
  {[name |-> "tlsscanner", isPrivate |-> p, stargazers |-> [totalCount |-> n],
    forkCount |-> 0] : p \in BOOLEAN, n \in StarCounts}

Owners == {Null} \cup {[repository |-> r] : r \in {Null} \cup RepositoryRecords}

MetaResponses == [user : Owners, organization : Owners]

UserIds == {1, 2}

IdResponses == [user : {Null} \cup {[id |-> i] : i \in UserIds}]

Author(userId, login) == [user |-> [id |-> userId, login |-> login]]

\* the first commit of the test fixture and four variations of it: another
\* case of the login and no additions; the same oid with other additions and
\* no deletions; the same oid with another author; an author without user
CommitRecords ==
  { [oid |-> 1, author |-> Author(1, LowerLogin), additions |-> 10, deletions |-> 5],
    [oid |-> 2, author |-> Author(1, UpperLogin), deletions |-> 3],
    [oid |-> 1, author |-> Author(1, LowerLogin), additions |-> 15],
    [oid |-> 1, author |-> Author(2, OtherLogin), additions |-> 10, deletions |-> 5],
    [oid |-> 3, author |-> [user |-> Null], additions |-> 7, deletions |-> 2] }

Histories(n) == UNION {[1..k -> CommitRecords] : k \in 0..n}

BranchRef(history) == [target |-> [history |-> [nodes |-> history]]]

RECURSIVE RefNodes(_, _)
\* the sequences of exactly r branch refs holding at most c commits in all
RefNodes(r, c) ==
  IF r = 0 THEN {<<>>}
  ELSE UNION {{<<BranchRef(h)>> \o rest : rest \in RefNodes(r - 1, c - Len(h))}
                : h \in Histories(c)}

CommitsResponses ==
  [repository : {Null, [refs |-> Null]}
     \cup {[refs |-> [nodes |-> ns]] :
             ns \in UNION {RefNodes(r, MaxCommits) : r \in 0..MaxRefs}}]

-----------------------------------------------------------------------------
(* The invocation.                                                         *)

Init ==
  /\ username \in Usernames
  /\ reponame \in Reponames
  /\ pc = "start"
  /\ calls = <<>>
  /\ metaResp = Undefined
  /\ idResp = Undefined
  /\ commitsResp = Undefined
  /\ repoMeta = Undefined
  /\ id = Undefined
  /\ result = Undefined
  /\ error = Undefined

\* the promise of fetchRepo rejects with e
Reject(e) ==
  /\ pc' = "rejected"
  /\ error' = e
  /\ UNCHANGED <<calls, repoMeta, id, result>>

\* fetchRepo is called: the parameter checks, then the metadata request
FetchRepo ==
  /\ pc = "start"
  /\ \E o \in {ValidateParams(username, reponame)} :
       IF Threw(o) THEN Reject(o.thrown)
       ELSE /\ calls' = Append(calls, MetaQuery(username, reponame))
            /\ pc' = "awaitMeta"
            /\ UNCHANGED <<repoMeta, id, result, error>>
  /\ UNCHANGED <<username, reponame, metaResp, idResp, commitsResp>>

\* the metadata request resolves: the owner is resolved, then fetchRepoCommits
\* starts and issues the identity request
MetaResolves ==
  /\ pc = "awaitMeta"
  /\ \E data \in MetaResponses :
       /\ metaResp' = data
       /\ \E o \in {ResolveOwner(data)} :
            IF Threw(o) THEN Reject(o.thrown)
            ELSE /\ repoMeta' = o.returned
                 /\ calls' = Append(calls, IdQuery(username))
                 /\ pc' = "awaitId"
                 /\ UNCHANGED <<id, result, error>>
  /\ UNCHANGED <<username, reponame, idResp, commitsResp>>

\* the identity request resolves: the id is read, then the commit request
IdResolves ==
  /\ pc = "awaitId"
  /\ \E data_id \in IdResponses :
       /\ idResp' = data_id
       /\ \E o \in {ResolveIdentity(data_id)} :
            IF Threw(o) THEN Reject(o.thrown)
            ELSE /\ id' = o.returned
                 /\ calls' = Append(calls, CommitsQuery(username, reponame, o.returned))
                 /\ pc' = "awaitCommits"
                 /\ UNCHANGED <<repoMeta, result, error>>
  /\ UNCHANGED <<username, reponame, metaResp, commitsResp>>

\* the commit request resolves: the totals are computed and fetchRepo returns
CommitsResolves ==
  /\ pc = "awaitCommits"
  /\ \E data \in CommitsResponses :
       /\ commitsResp' = data
       /\ \E o \in {CommitStats(data, username)} :
            IF Threw(o) THEN Reject(o.thrown)
            ELSE /\ result' = MergeResult(repoMeta, o.returned)
                 /\ pc' = "resolved"
                 /\ UNCHANGED <<calls, repoMeta, id, error>>
  /\ UNCHANGED <<username, reponame, metaResp, idResp>>

\* the awaited retryer call rejects: the error propagates out of fetchRepo
RetryerRejects ==
  /\ pc \in {"awaitMeta", "awaitId", "awaitCommits"}
  /\ Reject(NetworkError)
  /\ UNCHANGED <<username, reponame, metaResp, idResp, commitsResp>>

Next ==
  \/ FetchRepo
  \/ MetaResolves
  \/ IdResolves
  \/ CommitsResolves
  \/ RetryerRejects

Spec == Init /\ [][Next]_vars

-----------------------------------------------------------------------------
(* Vocabulary of the properties, stated on the inputs and independent of   *)
(* the operators above.                                                    *)

\* the error kinds of the specification, as the errors the code throws
NotFoundOwner == Error("Not found")

NotFoundUserRepository == Error("User Repository Not found")

NotFoundOrganizationRepository == Error("Organization Repository Not found")

NotFoundRepositoryOrRefs == Error("Repository or refs not found")

NotFoundNoCommits == Error("No commits found")

Unexpected == Error("Unexpected behavior")

MetaArrived == metaResp # Undefined

IdArrived == idResp # Undefined

CommitsArrived == commitsResp # Undefined

\* a repository object is present under the owner and is not private
Visible(owner) == owner.repository # Null /\ ~owner.repository.isPrivate

\* the set of parameters that are empty or absent
MissingParams ==
  {n \in {"username", "repo"} :
     \/ n = "username" /\ username \in {Undefined, Str(<<>>)}
     \/ n = "repo" /\ reponame \in {Undefined, Str(<<>>)}}

\* the refs list of the commit response, when it has one
HasRefs == /\ CommitsArrived
           /\ commitsResp.repository # Null
           /\ commitsResp.repository.refs # Null

RefsOf == commitsResp.repository.refs.nodes

\* the metadata response names one owner with a visible repository
MetaPassed ==
  /\ MetaArrived
  /\ \/ metaResp.organization = Null /\ metaResp.user # Null /\ Visible(metaResp.user)
     \/ metaResp.user = Null /\ metaResp.organization # Null
          /\ Visible(metaResp.organization)

\* the identity response holds a user
IdPassed == IdArrived /\ idResp.user # Null

\* the commit response holds a refs list with at least one ref
CommitsPassed == HasRefs /\ Len(RefsOf) > 0

\* the distinct commit records listed anywhere in the refs list
InputCommits ==
  UNION {{RefsOf[b].target.history.nodes[i] :
            i \in DOMAIN RefsOf[b].target.history.nodes} : b \in DOMAIN RefsOf}

\* two character codes are the same letter, whatever the case
SameLetter(a, b) ==
  \/ a = b
  \/ a \in 65..90 /\ b = a + 32
  \/ b \in 65..90 /\ a = b + 32

SameIgnoringCase(s, t) ==
  /\ Len(s.chars) = Len(t.chars)
  /\ \A i \in DOMAIN s.chars : SameLetter(s.chars[i], t.chars[i])

\* the records attributed to the requested login
Attributed ==
  {c \in InputCommits :
     c.author.user # Null /\ SameIgnoringCase(c.author.user.login, username)}

FieldOrZero(c, k) == IF k \in DOMAIN c THEN c[k] ELSE 0

RECURSIVE SumOf(_, _)
SumOf(S, k) ==
  IF S = {} THEN 0
  ELSE LET c == CHOOSE x \in S : TRUE IN FieldOrZero(c, k) + SumOf(S \ {c}, k)

Occurrences(seq, x) == Cardinality({i \in DOMAIN seq : seq[i] = x})

-----------------------------------------------------------------------------
(* C1: when username or reponame (or both) is empty or absent, the call    *)
(* fails with a MissingParamError naming exactly the missing parameters,   *)
(* and no request has been handed to the retryer.                          *)
C1_MissingParamFastFail ==
  (pc # "start" /\ MissingParams # {}) =>
     /\ pc = "rejected"
     /\ error.name = "MissingParamError"
     /\ {error.missedParams[i] : i \in DOMAIN error.missedParams} = MissingParams
     /\ Len(error.missedParams) = Cardinality(MissingParams)
     /\ calls = <<>>

C1_Witness ==
  /\ pc = "rejected"
  /\ username = Str(<<>>)
  /\ reponame = Str(<<>>)
  /\ error.missedParams = <<"username", "repo">>

-----------------------------------------------------------------------------
(* C2: on success the result is the field union of the metadata and the    *)
(* record { totalAdditions, totalDeletions } holding the sums over the     *)
(* deduplicated commits of the requesting login, and starCount is the      *)
(* metadata's stargazers.totalCount.                                       *)
C2_ResultHasTotals ==
  pc = "resolved" =>
     /\ DOMAIN result = DOMAIN repoMeta \cup {"totalAdditions", "totalDeletions"}
     /\ \A k \in DOMAIN repoMeta : result[k] = repoMeta[k]
     /\ result.totalAdditions = SumOf(Attributed, "additions")
     /\ result.totalDeletions = SumOf(Attributed, "deletions")
     /\ result.starCount = result.stargazers.totalCount

-----------------------------------------------------------------------------
(* C3: when exactly one of user / organization is non-null and its         *)
(* repository is present and not private, the metadata step succeeds with  *)
(* that repository's fields plus starCount = stargazers.totalCount.        *)
C3_OwnerExclusivity ==
  \A owner \in {"user", "organization"} :
    LET other == IF owner = "user" THEN "organization" ELSE "user" IN
    (/\ MetaArrived
     /\ metaResp[owner] # Null
     /\ metaResp[other] = Null
     /\ Visible(metaResp[owner])) =>
        LET repository == metaResp[owner].repository IN
        /\ Len(calls) >= 2
        /\ DOMAIN repoMeta = DOMAIN repository \cup {"starCount"}
        /\ \A k \in DOMAIN repository : repoMeta[k] = repository[k]
        /\ repoMeta.starCount = repository.stargazers.totalCount

C3_Witness ==
  /\ MetaArrived
  /\ metaResp.user = Null
  /\ metaResp.organization # Null
  /\ Visible(metaResp.organization)
  /\ metaResp.organization.repository.stargazers.totalCount = 1
  /\ repoMeta # Undefined
  /\ repoMeta.starCount = 1

-----------------------------------------------------------------------------
(* C4: the metadata step, and with it fetchRepo, rejects with "Not found"  *)
(* when both owners are null, with "User Repository Not found" when only   *)
(* the user is non-null and its repository is null or private, and with    *)
(* "Organization Repository Not found" in the symmetric case.              *)
C4_NotFoundKinds ==
  MetaArrived =>
    /\ (metaResp.user = Null /\ metaResp.organization = Null) =>
          pc = "rejected" /\ error = NotFoundOwner
    /\ (/\ metaResp.user # Null
        /\ metaResp.organization = Null
        /\ ~Visible(metaResp.user)) =>
          pc = "rejected" /\ error = NotFoundUserRepository
    /\ (/\ metaResp.organization # Null
        /\ metaResp.user = Null
        /\ ~Visible(metaResp.organization)) =>
          pc = "rejected" /\ error = NotFoundOrganizationRepository

C4_Witness ==
  /\ MetaArrived
  /\ metaResp.organization = Null
  /\ metaResp.user # Null
  /\ metaResp.user.repository # Null
  /\ metaResp.user.repository.isPrivate
  /\ pc = "rejected"
  /\ error = NotFoundUserRepository

-----------------------------------------------------------------------------
(* C5: two commit records collapse exactly when they are equal in every    *)
(* field: each distinct record of the branch histories survives exactly    *)
(* once, whatever its oid, and contributes to the totals once.             *)
C5_DedupByContent ==
  pc = "resolved" =>
    LET uniqueCommits == filterDuplicateCommits(RefsOf) IN
    /\ \A c \in InputCommits : Occurrences(uniqueCommits, c) = 1
    /\ \A i \in DOMAIN uniqueCommits : uniqueCommits[i] \in InputCommits
    /\ result.additionsCount =
         SumOf({c \in InputCommits : AuthoredBy(c, username)}, "additions")
    /\ result.deletionsCount =
         SumOf({c \in InputCommits : AuthoredBy(c, username)}, "deletions")

\* one record listed on both branches, beside one with its oid and other content
C5_Witness ==
  /\ pc = "resolved"
  /\ Len(RefsOf) = 2
  /\ \E c \in InputCommits :
       /\ \A b \in DOMAIN RefsOf :
            \E i \in DOMAIN RefsOf[b].target.history.nodes :
               RefsOf[b].target.history.nodes[i] = c
       /\ \E d \in InputCommits :
            d # c /\ d.oid = c.oid /\ d.author = c.author /\ c.additions = 10
  /\ result.additionsCount = 25

-----------------------------------------------------------------------------
-----------------------------------------------------------------------------
(* C7: a null user in the identity response rejects without the commit     *)
(* request being issued; an absent repository or refs list and an empty    *)
(* refs list reject with their own errors; and the three errors differ     *)
(* from one another and from the owner resolver's "not found" error.       *)
C7_CommitStepErrors ==
  /\ (IdArrived /\ idResp.user = Null) =>
        /\ pc = "rejected"
        /\ Len(calls) = 2
        /\ error \notin {NotFoundOwner, NotFoundRepositoryOrRefs, NotFoundNoCommits}
  /\ (CommitsArrived /\ ~HasRefs) =>
        /\ pc = "rejected"
        /\ error = NotFoundRepositoryOrRefs
        /\ error \notin {NotFoundOwner, NotFoundNoCommits}
  /\ (HasRefs /\ Len(RefsOf) = 0) =>
        /\ pc = "rejected"
        /\ error = NotFoundNoCommits
        /\ error \notin {NotFoundOwner, NotFoundRepositoryOrRefs}

-----------------------------------------------------------------------------
(* C8: when user and organization are both non-null the metadata step, and *)
(* with it fetchRepo, fails with "Unexpected behavior", whatever the two   *)
(* repositories hold; and that error arises in no other case.              *)
C8_BothOwnersUnexpected ==
  /\ (MetaArrived /\ metaResp.user # Null /\ metaResp.organization # Null) =>
        pc = "rejected" /\ error = Unexpected /\ Len(calls) = 1
  /\ (pc = "rejected" /\ error = Unexpected) =>
        /\ MetaArrived /\ ~IdArrived
        /\ metaResp.user # Null /\ metaResp.organization # Null

C8_Witness ==
  /\ MetaArrived
  /\ metaResp.user # Null
  /\ metaResp.organization # Null
  /\ Visible(metaResp.user)
  /\ ~Visible(metaResp.organization)
  /\ pc = "rejected"
  /\ error = Unexpected

-----------------------------------------------------------------------------
(* C9: the requests are issued one at a time in the order metadata,        *)
(* identity, commits, each at most once and only after the previous        *)
(* response arrived and passed its checks, the commit request carrying the *)
(* id of the identity response; after a failure no request follows,        *)
(* fetchRepo rejects with the error of that failure, and a result exists   *)
(* only when all three steps succeeded.                                    *)
C9_SequentialFailFast ==
  /\ Len(calls) = (IF pc = "start" \/ MissingParams # {} THEN 0
                   ELSE IF ~MetaPassed THEN 1
                   ELSE IF ~IdPassed THEN 2
                   ELSE 3)
  /\ Len(calls) >= 1 =>
        /\ calls[1].query = "getRepo"
        /\ calls[1].variables = [login |-> username, repo |-> reponame]
  /\ Len(calls) >= 2 =>
        /\ calls[2].query = "q_id"
        /\ calls[2].variables = [login |-> username]
  /\ Len(calls) >= 3 =>
        /\ calls[3].query = "q"
        /\ calls[3].variables =
             [login |-> username, repo |-> reponame, id |-> idResp.user.id]
  /\ MetaArrived => Len(calls) >= 1
  /\ IdArrived => MetaPassed
  /\ CommitsArrived => IdPassed
  /\ pc = "awaitMeta" => ~MetaArrived
  /\ pc = "awaitId" => ~IdArrived
  /\ pc = "awaitCommits" => ~CommitsArrived
  /\ pc = "rejected" =>
        /\ result = Undefined
        /\ error # Undefined
        /\ (error # NetworkError /\ MissingParams = {}) =>
              \/ MetaArrived /\ ~MetaPassed /\ ~IdArrived
              \/ IdArrived /\ ~IdPassed /\ ~CommitsArrived
              \/ CommitsArrived /\ ~CommitsPassed
  /\ pc = "resolved" <=> result # Undefined
  /\ pc = "resolved" =>
        /\ MetaPassed /\ IdPassed /\ CommitsPassed
        /\ error = Undefined
        /\ {"starCount", "additionsCount", "deletionsCount"} \subseteq DOMAIN result

\* the identity lookup failed after a good metadata response
C9_Witness ==
  /\ pc = "rejected"
  /\ MetaPassed
  /\ IdArrived
  /\ idResp.user = Null
  /\ Len(calls) = 2
  /\ result = Undefined

-----------------------------------------------------------------------------
====
